---------------------------- MODULE Spec2Model ----------------------------
(***************************************************************************)
(* AgriCalc Scan: the two expression evaluators (services/math-service.ts  *)
(* and app/page.tsx), the equation assembly of the solve flow              *)
(* (ai/flows/solve-equations.ts) and the interactive session of the page   *)
(* (app/page.tsx).                                                         *)
(*                                                                         *)
(* A string is a sequence of characters; a character is a one-character    *)
(* string, except the non-ASCII ones, which are written by code point.     *)
(***************************************************************************)
EXTENDS Integers, Sequences, FiniteSets, TLC

\* ------------------------------------------------------------ characters

\* U+00D7 MULTIPLICATION SIGN and U+00F7 DIVISION SIGN, as page.tsx:16 writes them.
Times == "U+00D7"
Divide == "U+00F7"
\* The three code points math-service.ts:13-14 holds in its two patterns:
\* U+0E23 U+0097 (line 13) and U+0E23 U+0E17 (line 14).
ThaiRoRua == "U+0E23"
CancelChar == "U+0097"
ThaiThoThahan == "U+0E17"

DigitChars == {"0", "1", "2", "3", "4", "5", "6", "7", "8", "9"}
OperatorChars == {"+", "-", "*", "/"}
SpaceChars == {" "}

IsDigit(c) == c \in DigitChars

\* The class [0-9+\-*/.()\s] of both evaluators.
IsAllowed(c) == c \in DigitChars \cup OperatorChars \cup {".", "(", ")"} \cup SpaceChars

\* The class [+\-*/.] of the trailing trim.
IsTrailingOp(c) == c \in OperatorChars \cup {"."}

DigitVal(c) ==
  CASE c = "0" -> 0 [] c = "1" -> 1 [] c = "2" -> 2 [] c = "3" -> 3 [] c = "4" -> 4
    [] c = "5" -> 5 [] c = "6" -> 6 [] c = "7" -> 7 [] c = "8" -> 8 [] c = "9" -> 9

\* s[k], or "EOF" outside the string.
At(s, k) == IF k >= 1 /\ k <= Len(s) THEN s[k] ELSE "EOF"

\* ------------------------------------------------------------ JS values

\* Numerators and denominators up to MaxExact are kept exactly; a finite
\* number beyond that is kept as a finite number of known sign only.
MaxExact == 30000

RECURSIVE GCD(_, _)
GCD(a, b) == IF b = 0 THEN a ELSE GCD(b, a % b)

\* A finite number s * n / d (s the sign, which a zero has too), in lowest terms.
NumV(s, n, d) ==
  IF n > MaxExact \/ d > MaxExact
  THEN [k |-> "fin", s |-> s]
  ELSE LET g == GCD(n, d) IN [k |-> "num", s |-> s, n |-> n \div g, d |-> d \div g]

Fin(s) == [k |-> "fin", s |-> s]
Inf(s) == [k |-> "inf", s |-> s]
NaN == [k |-> "nan"]
Undefined == [k |-> "undefined"]
RegExpObject == [k |-> "object"]
StringValue == [k |-> "string"]
\* The evaluation threw: a SyntaxError of the Function constructor or a
\* TypeError or ReferenceError of the call.
Thrown == [k |-> "thrown"]

IsNumber(v) == v.k \in {"num", "fin", "inf", "nan"}
IsFiniteNumber(v) == v.k \in {"num", "fin"}
IsZero(v) == v.k = "num" /\ v.n = 0

\* ToNumber: undefined, a RegExp object ("/3/") and a string holding a
\* slash are all NaN.
ToNumber(v) == IF IsNumber(v) THEN v ELSE NaN

Neg(x) == IF x.k = "nan" THEN NaN ELSE [x EXCEPT !.s = 0 - x.s]

NumAdd(x, y) ==
  IF x.k = "nan" \/ y.k = "nan" THEN NaN
  ELSE IF x.k = "inf" /\ y.k = "inf" THEN (IF x.s = y.s THEN x ELSE NaN)
  ELSE IF x.k = "inf" THEN x
  ELSE IF y.k = "inf" THEN y
  ELSE IF x.k = "fin" THEN x
  ELSE IF y.k = "fin" THEN y
  ELSE LET t == x.s * x.n * y.d + y.s * y.n * x.d IN
       IF t = 0
       THEN NumV(IF IsZero(x) /\ IsZero(y) /\ x.s = -1 /\ y.s = -1 THEN -1 ELSE 1, 0, 1)
       ELSE NumV(IF t < 0 THEN -1 ELSE 1, IF t < 0 THEN 0 - t ELSE t, x.d * y.d)

NumMul(x, y) ==
  IF x.k = "nan" \/ y.k = "nan" THEN NaN
  ELSE IF (x.k = "inf" /\ IsZero(y)) \/ (IsZero(x) /\ y.k = "inf") THEN NaN
  ELSE IF x.k = "inf" \/ y.k = "inf" THEN Inf(x.s * y.s)
  ELSE IF IsZero(x) \/ IsZero(y) THEN NumV(x.s * y.s, 0, 1)
  ELSE IF x.k = "fin" \/ y.k = "fin" THEN Fin(x.s * y.s)
  ELSE NumV(x.s * y.s, x.n * y.n, x.d * y.d)

NumDiv(x, y) ==
  IF x.k = "nan" \/ y.k = "nan" THEN NaN
  ELSE IF x.k = "inf" /\ y.k = "inf" THEN NaN
  ELSE IF x.k = "inf" THEN Inf(x.s * y.s)
  ELSE IF y.k = "inf" THEN NumV(x.s * y.s, 0, 1)
  ELSE IF IsZero(y) THEN (IF IsZero(x) THEN NaN ELSE Inf(x.s * y.s))
  ELSE IF IsZero(x) THEN NumV(x.s * y.s, 0, 1)
  ELSE IF x.k = "fin" \/ y.k = "fin" THEN Fin(x.s * y.s)
  ELSE NumV(x.s * y.s, x.n * y.d, x.d * y.n)

RECURSIVE IntPow(_, _)
IntPow(b, e) == IF e = 0 THEN 1 ELSE b * IntPow(b, e - 1)

\* x ** y. Exact for a whole exponent up to 9 on a base of one-digit numerator
\* and denominator; any other finite result is a finite number of known sign.
NumPow(x, y) ==
  IF y.k = "nan" THEN NaN
  ELSE IF IsZero(y) THEN NumV(1, 1, 1)
  ELSE IF x.k = "nan" THEN NaN
  ELSE LET whole == y.k = "num" /\ y.d = 1
           odd == whole /\ y.n % 2 = 1
           sign == IF x.s = -1 /\ odd THEN -1 ELSE 1
           one == x.k = "num" /\ x.n = x.d
           above == x.k \in {"inf", "fin"} \/ (x.k = "num" /\ x.n > x.d)
       IN
       IF y.k = "inf"
       THEN (IF one THEN NaN
             ELSE IF above = (y.s = 1) THEN Inf(1) ELSE NumV(1, 0, 1))
       ELSE IF x.k = "inf" \/ IsZero(x)
       THEN (IF (x.k = "inf") = (y.s = 1) THEN Inf(sign) ELSE NumV(sign, 0, 1))
       ELSE IF x.s = -1 /\ ~whole /\ y.k = "num" THEN NaN
       ELSE IF one THEN NumV(sign, 1, 1)
       ELSE IF whole /\ x.k = "num" /\ y.n <= 9 /\ x.n <= 9 /\ x.d <= 9
       THEN (IF y.s = 1
             THEN NumV(sign, IntPow(x.n, y.n), IntPow(x.d, y.n))
             ELSE NumV(sign, IntPow(x.d, y.n), IntPow(x.n, y.n)))
       ELSE Fin(sign)

\* The binary + concatenates as soon as one operand is an object or a string.
JsAdd(a, b) ==
  IF a.k \in {"object", "string"} \/ b.k \in {"object", "string"}
  THEN StringValue
  ELSE NumAdd(ToNumber(a), ToNumber(b))

JsSub(a, b) == NumAdd(ToNumber(a), Neg(ToNumber(b)))
JsMul(a, b) == NumMul(ToNumber(a), ToNumber(b))
JsDiv(a, b) == NumDiv(ToNumber(a), ToNumber(b))
JsPow(a, b) == NumPow(ToNumber(a), ToNumber(b))

\* ------------------------------------------ new Function('return ' + s)()

\* The first index at or after i that holds no digit.
RECURSIVE DigitsEnd(_, _)
DigitsEnd(s, i) == IF IsDigit(At(s, i)) THEN DigitsEnd(s, i + 1) ELSE i

\* The value of the digits s[a..b-1] in the given base; -1 beyond MaxExact.
RECURSIVE DigitsValue(_, _, _, _)
DigitsValue(s, a, b, base) ==
  IF b <= a THEN 0
  ELSE LET p == DigitsValue(s, a, b - 1, base) IN
       IF p < 0 \/ p * base + DigitVal(s[b - 1]) > MaxExact
       THEN -1
       ELSE p * base + DigitVal(s[b - 1])

RECURSIVE TenPow(_)
TenPow(m) == IF m = 0 THEN 1 ELSE IF m > 4 THEN MaxExact + 1 ELSE 10 * TenPow(m - 1)

Fail == [ok |-> FALSE]
Parsed(v, i, un) == [ok |-> TRUE, v |-> v, i |-> i, un |-> un]

\* A NumericLiteral at i: DecimalLiteral (3, 3.5, 3., .5) or, in the sloppy
\* mode of a Function body, a legacy octal literal (010 is 8). A legacy
\* octal literal takes no fraction, and a lone dot is no literal.
ParseNumber(s, i) ==
  LET j == DigitsEnd(s, i)
      dot == At(s, j) = "."
      m == IF dot THEN DigitsEnd(s, j + 1) ELSE j
      legacy == j > i + 1 /\ s[i] = "0"
      octal == legacy /\ \A p \in i..(j - 1) : DigitVal(s[p]) < 8
  IN
  IF j = i /\ (~dot \/ m = j + 1) THEN Fail
  ELSE IF legacy /\ dot /\ octal THEN Fail
  ELSE IF octal
  THEN LET n == DigitsValue(s, i, j, 8) IN
       Parsed(IF n < 0 THEN Fin(1) ELSE NumV(1, n, 1), j, FALSE)
  ELSE LET whole == DigitsValue(s, i, j, 10)
           frac == IF dot THEN DigitsValue(s, j + 1, m, 10) ELSE 0
           scale == IF dot THEN TenPow(m - (j + 1)) ELSE 1
       IN
       Parsed(IF whole < 0 \/ frac < 0 \/ scale > MaxExact \/ whole * scale > MaxExact
              THEN Fin(1)
              ELSE NumV(1, whole * scale + frac, scale),
              m, FALSE)

\* The index after the first "*/" at or after j; 0 when the comment never ends.
RECURSIVE CommentEnd(_, _)
CommentEnd(s, j) ==
  IF j + 1 > Len(s) THEN 0
  ELSE IF s[j] = "*" /\ s[j + 1] = "/" THEN j + 2
  ELSE CommentEnd(s, j + 1)

\* The index of the next token at or after i: white space and comments are
\* skipped. A "//" comment runs to the end (the strings hold no line
\* terminator); 0 when a "/*" comment never ends, which is a SyntaxError.
RECURSIVE SkipWs(_, _)
SkipWs(s, i) ==
  IF i = 0 \/ i > Len(s) THEN i
  ELSE IF s[i] \in SpaceChars THEN SkipWs(s, i + 1)
  ELSE IF s[i] = "/" /\ At(s, i + 1) = "/" THEN Len(s) + 1
  ELSE IF s[i] = "/" /\ At(s, i + 1) = "*" THEN SkipWs(s, CommentEnd(s, i + 2))
  ELSE i

\* The index of the "/" that closes the regular expression literal whose
\* body starts at j; 0 when there is none.
RECURSIVE RegexClose(_, _)
RegexClose(s, j) ==
  IF j > Len(s) THEN 0 ELSE IF s[j] = "/" THEN j ELSE RegexClose(s, j + 1)

\* Whether s[i..last] is a pattern: every "(" is closed, and "*" and "+"
\* follow an atom (a character, a dot or a group) that has no quantifier yet.
RECURSIVE PatternOk(_, _, _, _, _)
PatternOk(s, i, last, depth, atom) ==
  IF i > last THEN depth = 0
  ELSE IF s[i] = "(" THEN PatternOk(s, i + 1, last, depth + 1, FALSE)
  ELSE IF s[i] = ")" THEN depth > 0 /\ PatternOk(s, i + 1, last, depth - 1, TRUE)
  ELSE IF s[i] \in {"*", "+"} THEN atom /\ PatternOk(s, i + 1, last, depth, FALSE)
  ELSE PatternOk(s, i + 1, last, depth, TRUE)

\* A RegularExpressionLiteral whose first "/" is at i (the "/" of a comment
\* is skipped before). A digit right after the closing "/" is read as a flag,
\* and no digit is one.
ParseRegex(s, i) ==
  LET j == RegexClose(s, i + 1) IN
  IF j = 0 \/ IsDigit(At(s, j + 1)) \/ ~PatternOk(s, i + 1, j - 1, 0, FALSE)
  THEN Fail
  ELSE Parsed(RegExpObject, j + 1, FALSE)

\* The expression grammar, one case per nonterminal: Parse(nt, s, i, l)
\* parses nonterminal nt at index i of s; l is the left operand parsed so
\* far, for the two nonterminals that continue one.
\*
\* PrimaryExpression: a number, a regular expression or ( Expression ).
\*   Anything else where an operand is due (an identifier, a glyph, a ")",
\*   the end) makes the evaluation throw.
\* UnaryExpression: + or - on a UnaryExpression, or an operand. "++" and "--"
\*   are one token each, and every use of one throws: its operand is no
\*   assignment target (SyntaxError) or is a call (which throws first). A "("
\*   after an operand calls it, and no value here is callable (TypeError).
\* ExponentiationExpression: right-associative, and its left operand is no
\*   unary + or - expression (SyntaxError).
\* MultiplicativeExpression and AdditiveExpression (the Expression, there
\*   being no lower operator in the alphabet): left-associative.
RECURSIVE Parse(_, _, _, _)
Parse(nt, s, i, l) ==
  CASE nt = "PrimaryExpression" ->
         LET c == At(s, i) IN
         IF IsDigit(c) \/ c = "." THEN ParseNumber(s, i)
         ELSE IF c = "/" THEN ParseRegex(s, i)
         ELSE IF c = "(" THEN
           LET r == Parse("Expression", s, i + 1, Fail) IN
           IF ~r.ok THEN Fail
           ELSE LET j == SkipWs(s, r.i) IN
                IF At(s, j) = ")" THEN Parsed(r.v, j + 1, FALSE) ELSE Fail
         ELSE Fail
    [] nt = "UnaryExpression" ->
         LET j == SkipWs(s, i)
             c == At(s, j)
         IN
         IF c \in {"+", "-"} THEN
           IF At(s, j + 1) = c THEN Fail
           ELSE LET r == Parse("UnaryExpression", s, j + 1, Fail) IN
                IF ~r.ok THEN Fail
                ELSE Parsed(IF c = "-" THEN Neg(ToNumber(r.v)) ELSE ToNumber(r.v),
                            r.i, TRUE)
         ELSE
           LET p == Parse("PrimaryExpression", s, j, Fail) IN
           IF ~p.ok THEN Fail
           ELSE LET k == SkipWs(s, p.i) IN
                IF At(s, k) = "(" THEN Fail
                ELSE IF At(s, k) \in {"+", "-"} /\ At(s, k + 1) = At(s, k) THEN Fail
                ELSE p
    [] nt = "ExponentiationExpression" ->
         LET u == Parse("UnaryExpression", s, i, Fail) IN
         IF ~u.ok THEN Fail
         ELSE LET k == SkipWs(s, u.i) IN
              IF At(s, k) = "*" /\ At(s, k + 1) = "*" THEN
                IF u.un THEN Fail
                ELSE LET r == Parse("ExponentiationExpression", s, k + 2, Fail) IN
                     IF ~r.ok THEN Fail ELSE Parsed(JsPow(u.v, r.v), r.i, FALSE)
              ELSE u
    [] nt = "MultiplicativeRest" ->
         LET k == SkipWs(s, l.i)
             c == At(s, k)
         IN
         IF c \in {"*", "/"} THEN
           LET r == Parse("ExponentiationExpression", s, k + 1, Fail) IN
           IF ~r.ok THEN Fail
           ELSE Parse("MultiplicativeRest", s, 0,
                  Parsed(IF c = "*" THEN JsMul(l.v, r.v) ELSE JsDiv(l.v, r.v), r.i, FALSE))
         ELSE l
    [] nt = "MultiplicativeExpression" ->
         LET e == Parse("ExponentiationExpression", s, i, Fail) IN
         IF ~e.ok THEN Fail ELSE Parse("MultiplicativeRest", s, 0, e)
    [] nt = "AdditiveRest" ->
         LET k == SkipWs(s, l.i)
             c == At(s, k)
         IN
         IF c \in {"+", "-"} THEN
           LET r == Parse("MultiplicativeExpression", s, k + 1, Fail) IN
           IF ~r.ok THEN Fail
           ELSE Parse("AdditiveRest", s, 0,
                  Parsed(IF c = "+" THEN JsAdd(l.v, r.v) ELSE JsSub(l.v, r.v), r.i, FALSE))
         ELSE l
    [] nt = "Expression" ->
         LET m == Parse("MultiplicativeExpression", s, i, Fail) IN
         IF ~m.ok THEN Fail ELSE Parse("AdditiveRest", s, 0, m)

ParseExpression(s, i) == Parse("Expression", s, i, Fail)

\* new Function('return ' + s)(): the value returned, or Thrown. A body that
\* holds no token after "return" returns undefined.
JsFunctionEval(s) ==
  LET j == SkipWs(s, 1) IN
  IF j = 0 THEN Thrown
  ELSE IF j > Len(s) THEN Undefined
  ELSE LET r == ParseExpression(s, j) IN
       IF ~r.ok THEN Thrown
       ELSE IF SkipWs(s, r.i) = Len(s) + 1 THEN r.v ELSE Thrown

\* ------------------------------------------------------ string helpers

\* String.prototype.replace(/ab/g, r) for a two-character pattern.
RECURSIVE ReplacePair(_, _, _, _)
ReplacePair(s, a, b, r) ==
  IF s = <<>> THEN <<>>
  ELSE IF Len(s) >= 2 /\ s[1] = a /\ s[2] = b
  THEN <<r>> \o ReplacePair(SubSeq(s, 3, Len(s)), a, b, r)
  ELSE <<s[1]>> \o ReplacePair(Tail(s), a, b, r)

\* String.prototype.replace(/a/g, r) for a one-character pattern.
ReplaceChar(s, a, r) == [i \in 1..Len(s) |-> IF s[i] = a THEN r ELSE s[i]]

RECURSIVE TrimStart(_)
TrimStart(s) == IF s # <<>> /\ s[1] \in SpaceChars THEN TrimStart(Tail(s)) ELSE s

RECURSIVE TrimEnd(_)
TrimEnd(s) ==
  IF s # <<>> /\ s[Len(s)] \in SpaceChars THEN TrimEnd(SubSeq(s, 1, Len(s) - 1)) ELSE s

\* String.prototype.trim().
Trim(s) == TrimEnd(TrimStart(s))

\* Array.prototype.join(sep) on an array of strings.
RECURSIVE Join(_, _)
Join(parts, sep) ==
  IF parts = <<>> THEN <<>>
  ELSE IF Len(parts) = 1 THEN parts[1]
  ELSE parts[1] \o sep \o Join(Tail(parts), sep)

\* ------------------------------------- math-service.ts: evaluateExpression

\* math-service.ts:12-14. The two patterns hold U+0E23 U+0097 and
\* U+0E23 U+0E17, not the glyphs U+00D7 and U+00F7.
ReplaceMathSymbols(expression) ==
  ReplacePair(ReplacePair(expression, ThaiRoRua, CancelChar, "*"),
              ThaiRoRua, ThaiThoThahan, "/")

\* math-service.ts:17 left out.
RemoveDisallowed_Nothing(s) == s

\* math-service.ts:17: every character outside the class is removed.
RemoveDisallowed(s) == SelectSeq(s, IsAllowed)

\* replace(/[+\-*/.]+$/, ''): the longest run of operator and dot characters
\* that ends the string is removed.
RECURSIVE DropTrailingOps(_)
DropTrailingOps(s) ==
  IF s # <<>> /\ IsTrailingOp(s[Len(s)])
  THEN DropTrailingOps(SubSeq(s, 1, Len(s) - 1))
  ELSE s

\* math-service.ts:20.
TrimTrailingOperators(s) == Trim(DropTrailingOps(Trim(s)))

\* math-service.ts:12-20: the string the function builds before it evaluates.
SanitizeExpression(expression) ==
  TrimTrailingOperators(RemoveDisallowed(ReplaceMathSymbols(expression)))

\* No call of the Function constructor was made.
NoCall == <<"no call">>

\* What evaluateExpression does on an input: the argument its Function call
\* got after 'return ' (NoCall when it made none), what that call produced,
\* and the result the promise resolves to. The function has no throw outside
\* its try block, so its promise never rejects.
\* math-service.ts:30 without its isFinite test.
FiniteOrNaN_TypeOnly(raw) == IF IsNumber(raw) THEN raw ELSE NaN

FiniteOrNaN(raw) == IF IsNumber(raw) /\ IsFiniteNumber(raw) THEN raw ELSE NaN

\* math-service.ts:28-39, from what the Function call produced on.
Evaluated(sanitizedExpression, raw) ==
  [arg |-> sanitizedExpression, raw |-> raw,
   result |-> IF raw.k = "thrown" THEN NaN ELSE FiniteOrNaN(raw),
   rejected |-> FALSE]

evaluateExpression(expression) ==
  LET sanitizedExpression == SanitizeExpression(expression) IN
  IF sanitizedExpression = <<>>
  THEN [arg |-> NoCall, raw |-> Undefined, result |-> NaN, rejected |-> FALSE]
  ELSE Evaluated(sanitizedExpression, JsFunctionEval(sanitizedExpression))

\* ------------------------------------------------ page.tsx: simpleEvaluate

\* page.tsx:16.
ReplaceGlyphs(expression) == ReplaceChar(ReplaceChar(expression, Times, "*"), Divide, "/")

\* page.tsx:17: the test that makes the function throw.
HasDisallowed(s) == \E i \in 1..Len(s) : ~IsAllowed(s[i])

\* page.tsx:14-25. The value is whatever the call returned (a RegExp object
\* or undefined too), and NaN when anything threw.
\* page.tsx:20-24, from what the Function call produced on.
SimplyEvaluated(sanitizedExpression, raw) ==
  [arg |-> sanitizedExpression, raw |-> raw,
   result |-> IF raw.k = "thrown" THEN NaN ELSE raw]

simpleEvaluate(expression) ==
  LET sanitizedExpression == ReplaceGlyphs(expression) IN
  IF HasDisallowed(sanitizedExpression)
  THEN [arg |-> NoCall, raw |-> Thrown, result |-> NaN]
  ELSE SimplyEvaluated(sanitizedExpression, JsFunctionEval(sanitizedExpression))

\* The global isNaN(v): ToNumber(v) is NaN.
JsIsNaN(v) == ToNumber(v).k = "nan"

\* page.tsx:155.
InvalidExpression == [k |-> "text", text |-> "Invalid Expression"]
NewResultDisplay(newResult) == IF JsIsNaN(newResult) THEN InvalidExpression ELSE newResult

\* ------------------------------------ ocr-service.ts and solve-equations.ts

Null == [k |-> "null"]

\* String.prototype.match(/[+\-*/]/g): the operator characters, in order.
MatchOperators(s) == SelectSeq(s, LAMBDA c : c \in OperatorChars)

\* ocr-service.ts:32-54 on what the prompt produced: Null stands for no
\* output and for a thrown error, which the function turns into null too.
extractNumbersAndOperators(output) ==
  IF output = Null THEN Null
  ELSE IF output.expression # <<>> /\ Len(output.operators) = 0 /\ Len(output.numbers) > 1
          /\ MatchOperators(output.expression) # <<>>
  THEN [output EXCEPT !.operators = MatchOperators(output.expression)]
  ELSE output

NoEquationFound ==
  <<"N", "o", " ", "e", "q", "u", "a", "t", "i", "o", "n", " ", "f", "o", "u", "n", "d">>

Zero == NumV(1, 0, 1)

\* solve-equations.ts:56 without its test of operators.
AssembleExpression_ExpressionFirst(extractionResult) ==
  IF extractionResult.expression # <<>>
  THEN extractionResult.expression
  ELSE Join(extractionResult.numbers, <<" ", "+", " ">>)

\* solve-equations.ts:56.
AssembleExpression(extractionResult) ==
  IF Len(extractionResult.operators) > 0 /\ extractionResult.expression # <<>>
  THEN extractionResult.expression
  ELSE Join(extractionResult.numbers, <<" ", "+", " ">>)

\* The flow as it was before solve-equations.ts:72-78 (unnamed/part_003:
\* 78-80): an expression that does not evaluate makes the flow throw.
FlowOutcome_ThrowsOnNaN(expression, evaluationResult) ==
  IF evaluationResult.rejected \/ JsIsNaN(evaluationResult.result)
  THEN [kind |-> "rejected", message |-> "Could not evaluate the expression."]
  ELSE [kind |-> "resolved", expression |-> expression,
        result |-> evaluationResult.result, evaluated |-> TRUE]

\* solve-equations.ts:69-84, from the awaited evaluation on.
FlowOutcome(expression, evaluationResult) ==
  IF evaluationResult.rejected
  THEN [kind |-> "rejected", message |-> "evaluateExpression rejected"]
  ELSE [kind |-> "resolved", expression |-> expression,
        result |-> IF JsIsNaN(evaluationResult.result)
                   THEN Zero ELSE evaluationResult.result,
        evaluated |-> TRUE]

\* The flow without solve-equations.ts:58-64 (as in unnamed/part_003:75-83):
\* an empty expression is evaluated like any other.
solveScannedEquationsFlow_NoEmptyCheck(extractionResult) ==
  IF extractionResult = Null
  THEN [kind |-> "rejected", message |-> "Could not extract data from the image."]
  ELSE FlowOutcome(AssembleExpression(extractionResult),
                   evaluateExpression(AssembleExpression(extractionResult)))

\* solve-equations.ts:41-84 from the extraction result on: the promise
\* rejects or resolves with {expression, result}; evaluated tells whether
\* evaluateExpression was called.
solveScannedEquationsFlow(extractionResult) ==
  IF extractionResult = Null
  THEN [kind |-> "rejected", message |-> "Could not extract data from the image."]
  ELSE LET expression == AssembleExpression(extractionResult) IN
       IF Trim(expression) = <<>>
       THEN [kind |-> "resolved", expression |-> NoEquationFound, result |-> Zero,
             evaluated |-> FALSE]
       ELSE FlowOutcome(expression, evaluateExpression(expression))

\* solveScannedEquations (solve-equations.ts:31-33) on what the OCR prompt
\* produced for the photo.
solveScannedEquations(output) == solveScannedEquationsFlow(extractNumbersAndOperators(output))

\* ------------------------------------------------------------------ state

VARIABLES
  \* One call of an evaluator: its input, which evaluator ran, what it did.
  evalInput, evalWho, evalOut,
  \* One run of the solve flow: what the OCR prompt produced, the outcome.
  ocrOutput, flowResult,
  \* The page's state (page.tsx:28-40).
  step, originalImage, processedImage, isLoading, ocrResult, editableExpression,
  imageDimensions, corners, draggingCorner,
  \* Files being read and decoded, solveScannedEquations calls in flight,
  \* the handler that ran last, and the pointer moves the run still takes.
  pendingLoads, pendingCalls, lastEvent, movesLeft,
  \* One call of getCroppedImg: the image behind the URL, the rectangle, what
  \* the browser grants, which of the two functions ran, the outcome.
  imageSrc, pixelCrop, canvasEnv, cropWho, cropOut

evalVars == <<evalInput, evalWho, evalOut>>
flowVars == <<ocrOutput, flowResult>>
pageVars == <<step, originalImage, processedImage, isLoading, ocrResult,
              editableExpression, imageDimensions, corners, draggingCorner>>
sessionVars == <<pageVars, pendingLoads, pendingCalls, lastEvent, movesLeft>>
cropVars == <<imageSrc, pixelCrop, canvasEnv, cropWho, cropOut>>
vars == <<evalVars, flowVars, cropVars, sessionVars>>

\* ------------------------------------------------------------ the inputs

\* The longest expression string the evaluators are tried on, every string
\* over EvalAlphabet up to that length being tried.
MaxLen == 3

EvalAlphabet == {"0", "3", "+", "-", "*", "/", ".", "(", ")", " ", Times, Divide, "a"}

StringsUpTo(alphabet, n) == UNION {[1..m -> alphabet] : m \in 0..n}

\* Longer strings of interest.
SampleExpressions == {
  <<"2", "*", "3">>, <<"2", Times, "3">>, <<"6", "/", "3">>, <<"6", Divide, "3">>,
  <<"2", ThaiRoRua, CancelChar, "3">>, <<"6", ThaiRoRua, ThaiThoThahan, "3">>,
  <<"(", "/", "1", "/", ")">>, <<"/", "1", "/", "+", "3">>,
  <<"3", "+", " ", "-">>, <<"3", " ", "+", " ">>, <<"3", " ", "+", " ", ".">>,
  <<"2", " ", "+", " ", "3", " ", "+", " ", "5">>,
  <<"(", "2", "+", "3", ")", "*", "4">>, <<"2", "*", "3", "+", "4">>,
  <<"3", "/", "(", "0", "*", "-", "3", ")">>, <<"2", "a", "+", "b", "3">> }

EvalInputs == StringsUpTo(EvalAlphabet, MaxLen) \cup SampleExpressions

\* What the OCR prompt can produce: up to MaxNumbers number tokens, up to
\* MaxOperators operator tokens, and an expression.
MaxNumbers == 3
MaxOperators == 1

NumberTokens == {<<"2">>, <<"3">>, <<"5">>, <<>>}
OperatorTokens == {<<"+">>, <<"*">>}
OcrExpressions == {
  <<>>, <<" ">>, <<"2", "*", "3">>, <<"2", " ", "3">>, <<"3", "/", "0">>,
  <<"2", Times, "3">>, <<"x", "=", "2", "+">> }

OcrOutputs ==
  {Null} \cup
  [expression : OcrExpressions,
   numbers : StringsUpTo(NumberTokens, MaxNumbers),
   operators : StringsUpTo(OperatorTokens, MaxOperators)]

\* ------------------------------------------------------ the page's state

\* How many pointer moves a run of the session takes.
MaxMoves == 1

NoCorner == -1
DefaultCorners == <<[x |-> 1, y |-> 1], [x |-> 9, y |-> 1], [x |-> 9, y |-> 9], [x |-> 1, y |-> 9]>>

\* page.tsx:28-40: the state after the first render. A corner coordinate is
\* in tenths: 1 is 0.1 and 10 is 1.
PageInit ==
  /\ step = "upload"
  /\ originalImage = Null
  /\ processedImage = Null
  /\ isLoading = FALSE
  /\ ocrResult = Null
  /\ editableExpression = <<>>
  /\ imageDimensions = Null
  /\ corners = DefaultCorners
  /\ draggingCorner = NoCorner

SessionInit ==
  /\ PageInit
  /\ pendingLoads = {}
  /\ pendingCalls = <<>>
  /\ lastEvent = [name |-> "render"]
  /\ movesLeft = MaxMoves

EvalIdle == evalInput = <<>> /\ evalWho = "idle" /\ evalOut = Null
FlowIdle == ocrOutput = Null /\ flowResult = Null
CropIdle == /\ imageSrc = Null /\ pixelCrop = Null /\ canvasEnv = Null
            /\ cropWho = "idle" /\ cropOut = Null

\* ------------------------------------------- the evaluators, one call each

CallEvaluateExpression ==
  /\ evalWho = "idle"
  /\ evalWho' = "evaluateExpression"
  /\ evalOut' = evaluateExpression(evalInput)
  /\ UNCHANGED <<evalInput, flowVars, cropVars, sessionVars>>

CallSimpleEvaluate ==
  /\ evalWho = "idle"
  /\ evalWho' = "simpleEvaluate"
  /\ evalOut' = simpleEvaluate(evalInput)
  /\ UNCHANGED <<evalInput, flowVars, cropVars, sessionVars>>

EvalInit == evalInput \in EvalInputs /\ evalWho = "idle" /\ evalOut = Null
            /\ FlowIdle /\ CropIdle /\ SessionInit
EvalNext == CallEvaluateExpression \/ CallSimpleEvaluate
SpecEval == EvalInit /\ [][EvalNext]_vars

\* -------------------------------------------------- the solve flow, one run

RunSolveScannedEquations ==
  /\ flowResult = Null
  /\ flowResult' = solveScannedEquations(ocrOutput)
  /\ UNCHANGED <<ocrOutput, evalVars, cropVars, sessionVars>>

FlowInit == ocrOutput \in OcrOutputs /\ flowResult = Null /\ EvalIdle /\ CropIdle
            /\ SessionInit
FlowNext == RunSolveScannedEquations
SpecFlow == FlowInit /\ [][FlowNext]_vars

\* ------------------------------------------------------- getCroppedImg

\* The largest x and y and the largest width and height of a rectangle.
MaxOffset == 1
MaxSide == 2

\* A pixel is a colour c with alpha a: opaque colours, opaque black, and
\* the transparent black a new canvas is filled with.
Colour(c) == [c |-> c, a |-> 1]
Black == [c |-> 0, a |-> 1]
Transparent == [c |-> 0, a |-> 0]

Coordinates(width, height) == (0..(width - 1)) \X (0..(height - 1))

\* A photograph of 3 by 2 pixels, all opaque and all different, and a PNG of
\* 2 by 2 pixels whose top left pixel is transparent.
Photo == [width |-> 3, height |-> 2,
          px |-> [p \in Coordinates(3, 2) |-> Colour(1 + p[1] + 3 * p[2])]]
Sticker == [width |-> 2, height |-> 2,
            px |-> [p \in Coordinates(2, 2) |->
                      IF p = <<0, 0>> THEN Transparent ELSE Colour(7 + p[1] + 2 * p[2])]]
Images == {Photo, Sticker}

\* What a URL can lead to: an image, or something that does not decode.
ImageSources == [decodes : BOOLEAN, image : Images]

Areas == [x : 0..MaxOffset, y : 0..MaxOffset, width : 0..MaxSide, height : 0..MaxSide]

\* What the browser grants: a 2D context for the first canvas, one for the
\* second, and the encoding of the bitmap.
CanvasEnvs == [context : BOOLEAN, secondContext : BOOLEAN, encodes : BOOLEAN]

\* document.createElement('canvas') with its width and height set: a bitmap
\* of transparent black.
Canvas(width, height) ==
  [width |-> width, height |-> height,
   px |-> [p \in Coordinates(width, height) |-> Transparent]]

\* Source-over compositing of a pixel of full or no alpha.
Over(source, destination) == IF source.a = 0 THEN destination ELSE source

\* drawImage that takes the source rectangle from the top left corner of
\* the source, whatever sx and sy.
DrawImage_FromOrigin(canvas, source, sx, sy, sw, sh, dx, dy) ==
  IF sw = 0 \/ sh = 0
  THEN canvas
  ELSE [canvas EXCEPT !.px =
          [p \in DOMAIN canvas.px |->
             IF /\ p[1] - dx \in 0..(sw - 1)
                /\ p[2] - dy \in 0..(sh - 1)
                /\ p[1] - dx \in 0..(source.width - 1)
                /\ p[2] - dy \in 0..(source.height - 1)
             THEN Over(source.px[<<p[1] - dx, p[2] - dy>>], canvas.px[p])
             ELSE canvas.px[p]]]

\* ctx.drawImage(source, sx, sy, sw, sh, dx, dy, sw, sh) on canvas: nothing
\* is drawn when sw or sh is 0, and the part of the source rectangle outside
\* the source is left out.
DrawImage(canvas, source, sx, sy, sw, sh, dx, dy) ==
  IF sw = 0 \/ sh = 0
  THEN canvas
  ELSE [canvas EXCEPT !.px =
          [p \in DOMAIN canvas.px |->
             IF /\ p[1] - dx \in 0..(sw - 1)
                /\ p[2] - dy \in 0..(sh - 1)
                /\ sx + p[1] - dx \in 0..(source.width - 1)
                /\ sy + p[2] - dy \in 0..(source.height - 1)
             THEN Over(source.px[<<sx + p[1] - dx, sy + p[2] - dy>>], canvas.px[p])
             ELSE canvas.px[p]]]

\* The bitmap a JPEG file holds: JPEG has no alpha, the canvas is composited
\* onto opaque black. The loss of the compression is left out.
JpegBitmap(canvas) ==
  [canvas EXCEPT !.px = [p \in DOMAIN canvas.px |-> Over(canvas.px[p], Black)]]

EmptyDataUrl == [k |-> "dataUri", mime |-> "none"]
JpegDataUrl(canvas) == [k |-> "dataUri", mime |-> "image/jpeg", bitmap |-> JpegBitmap(canvas)]

\* Whether the bitmap of canvas can be serialised: it has pixels and the
\* encoder works.
Serialises(canvas, env) == canvas.width > 0 /\ canvas.height > 0 /\ env.encodes

\* canvas.toDataURL('image/jpeg'): "data:," when there is no file.
ToDataURL(canvas, env) ==
  IF Serialises(canvas, env) THEN JpegDataUrl(canvas) ELSE EmptyDataUrl

Returned(value) == [kind |-> "resolved", value |-> value]
Rejected(error) == [kind |-> "rejected", error |-> error]

\* cropImage.ts:12-58.
getCroppedImg_cropImage(source, crop, env) ==
  IF ~source.decodes THEN Rejected("image error event")
  ELSE IF ~env.context THEN Returned(Null)
  ELSE IF ~env.secondContext THEN Returned(Null)
  ELSE LET image == source.image
           canvas == DrawImage(Canvas(image.width, image.height), image,
                               0, 0, image.width, image.height, 0, 0)
           croppedCanvas == DrawImage(Canvas(crop.width, crop.height), canvas,
                                      crop.x, crop.y, crop.width, crop.height, 0, 0)
       IN Returned(ToDataURL(croppedCanvas, env))

\* image-utils.ts:20-64.
getCroppedImg_imageUtils(source, crop, env) ==
  IF ~source.decodes THEN Rejected("image error event")
  ELSE IF ~env.context THEN Returned(Null)
  ELSE LET canvas == DrawImage(Canvas(crop.width, crop.height), source.image,
                               crop.x, crop.y, crop.width, crop.height, 0, 0)
       IN IF Serialises(canvas, env)
          THEN Returned(JpegDataUrl(canvas))
          ELSE Rejected("Canvas is empty")

CallCropImage ==
  /\ cropWho = "idle"
  /\ cropWho' = "cropImage"
  /\ cropOut' = getCroppedImg_cropImage(imageSrc, pixelCrop, canvasEnv)
  /\ UNCHANGED <<imageSrc, pixelCrop, canvasEnv, evalVars, flowVars, sessionVars>>

CallImageUtils ==
  /\ cropWho = "idle"
  /\ cropWho' = "image-utils"
  /\ cropOut' = getCroppedImg_imageUtils(imageSrc, pixelCrop, canvasEnv)
  /\ UNCHANGED <<imageSrc, pixelCrop, canvasEnv, evalVars, flowVars, sessionVars>>

CropInit == /\ imageSrc \in ImageSources /\ pixelCrop \in Areas /\ canvasEnv \in CanvasEnvs
            /\ cropWho = "idle" /\ cropOut = Null
            /\ EvalIdle /\ FlowIdle /\ SessionInit
CropNext == CallCropImage \/ CallImageUtils
SpecCrop == CropInit /\ [][CropNext]_vars

\* ------------------------------------------------------------ the session

\* How many files can be in the reading at once, each file once, and how
\* many solveScannedEquations calls can be in flight at once.
MaxLoads == 1
MaxCalls == 1

\* The image files the user can pick, with the size they decode to.
Files == {[name |-> "A", width |-> 40, height |-> 20], [name |-> "B", width |-> 30, height |-> 30]}

DataUri(file) == [k |-> "dataUri", file |-> file.name]

\* Where the pointer can be, as x / rect.width and y / rect.height in tenths:
\* outside the cropper on both axes, and inside it.
PointerPositions == {[x |-> -5, y |-> 15], [x |-> 5, y |-> 3]}

\* The corner circles the user takes hold of: the top left one and the
\* bottom right one.
CornerIndices == {0, 2}

\* What the user can type into the equation box.
TypedExpressions == {<<"3", "/", "0">>, <<"2", Times, "3">>}

\* What the OCR prompt can produce during a session.
SessionOcrOutputs == {
  Null,
  [expression |-> <<"2", "*", "3">>, numbers |-> <<<<"2">>, <<"3">>>>, operators |-> <<<<"*">>>>],
  [expression |-> <<"3", "/", "0">>, numbers |-> <<<<"3">>, <<"0">>>>, operators |-> <<<<"/">>>>],
  [expression |-> <<>>, numbers |-> <<>>, operators |-> <<>>] }

\* The call did not reach the server or its answer did not come back.
TransportFailure == [k |-> "transport failure"]

Remove(seq, i) == SubSeq(seq, 1, i - 1) \o SubSeq(seq, i + 1, Len(seq))

Event(name) == [name |-> name]

\* page.tsx:63-79, the handler itself: it starts the read of the chosen file
\* and sets no state. The file input is rendered in the upload stage.
HandleFileChange(file) ==
  /\ step = "upload"
  /\ Cardinality(pendingLoads) < MaxLoads
  /\ pendingLoads' = pendingLoads \cup {file}
  /\ lastEvent' = Event("handleFileChange")
  /\ UNCHANGED <<pageVars, pendingCalls, movesLeft, evalVars, flowVars, cropVars>>

\* page.tsx:70-74: img.onload of a file read earlier.
ImageOnload(file) ==
  /\ file \in pendingLoads
  /\ imageDimensions' = [width |-> file.width, height |-> file.height]
  /\ originalImage' = DataUri(file)
  /\ step' = "crop"
  /\ pendingLoads' = pendingLoads \ {file}
  /\ lastEvent' = Event("img.onload")
  /\ UNCHANGED <<processedImage, isLoading, ocrResult, editableExpression, corners,
                 draggingCorner, pendingCalls, movesLeft, evalVars, flowVars, cropVars>>

\* The read or the decoding fails: page.tsx registers no handler for it.
ImageOnerror(file) ==
  /\ file \in pendingLoads
  /\ pendingLoads' = pendingLoads \ {file}
  /\ lastEvent' = Event("img.onerror")
  /\ UNCHANGED <<pageVars, pendingCalls, movesLeft, evalVars, flowVars, cropVars>>

\* page.tsx:89-97: the argument of the call.
SolveArgument(image, dimensions, cs) ==
  [photoDataUri |-> image,
   corners |-> [i \in 1..Len(cs) |->
                  [x |-> cs[i].x * dimensions.width, y |-> cs[i].y * dimensions.height]]]

\* solve-equations.ts:16-23: the flow's input schema keeps photoDataUri only.
SolveScannedEquationsInput(argument) == [photoDataUri |-> argument.photoDataUri]

\* page.tsx:85-97, up to the await. The button is rendered in the crop stage
\* and disabled while isLoading (page.tsx:234).
HandleSolve ==
  /\ step = "crop"
  /\ ~isLoading
  /\ Len(pendingCalls) < MaxCalls
  /\ IF originalImage = Null \/ imageDimensions = Null
     THEN UNCHANGED <<isLoading, pendingCalls>>
     ELSE /\ isLoading' = TRUE
          /\ pendingCalls' = Append(pendingCalls,
               SolveScannedEquationsInput(SolveArgument(originalImage, imageDimensions, corners)))
  /\ lastEvent' = Event("handleSolve")
  /\ UNCHANGED <<step, originalImage, processedImage, ocrResult, editableExpression,
                 imageDimensions, corners, draggingCorner, pendingLoads, movesLeft, evalVars, flowVars, cropVars>>

\* The field enhancedPhotoDataUri of what solve-equations.ts resolves with:
\* its result holds expression and result only.
EnhancedPhotoDataUri(result) == Undefined

\* page.tsx:99-102 and 106-108: call i resolved with result.
Resolved(i, output, result) ==
  /\ i \in 1..Len(pendingCalls)
  /\ result.kind = "resolved"
  /\ processedImage' = EnhancedPhotoDataUri(result)
  /\ ocrResult' = [expression |-> result.expression, result |-> result.result]
  /\ editableExpression' = result.expression
  /\ step' = "result"
  /\ isLoading' = FALSE
  /\ pendingCalls' = Remove(pendingCalls, i)
  /\ lastEvent' = [name |-> "solveResolved", output |-> output]
  /\ UNCHANGED <<originalImage, imageDimensions, corners, draggingCorner, pendingLoads,
                 movesLeft, evalVars, flowVars, cropVars>>

\* The server ran the flow on what the OCR prompt produced, and the call
\* resolved.
SolveResolves(i, output) == Resolved(i, output, solveScannedEquations(output))

\* page.tsx:103-108 without the finally block.
SolveRejects_NoFinally(i, output) ==
  /\ i \in 1..Len(pendingCalls)
  /\ IF output = TransportFailure
     THEN TRUE
     ELSE solveScannedEquations(output).kind = "rejected"
  /\ pendingCalls' = Remove(pendingCalls, i)
  /\ lastEvent' = [name |-> "solveRejected", output |-> output]
  /\ UNCHANGED <<pageVars, pendingLoads, movesLeft, evalVars, flowVars, cropVars>>

\* page.tsx:103-108: the call rejected, because the flow threw or the call
\* failed on its way.
SolveRejects(i, output) ==
  /\ i \in 1..Len(pendingCalls)
  /\ IF output = TransportFailure
     THEN TRUE
     ELSE solveScannedEquations(output).kind = "rejected"
  /\ isLoading' = FALSE
  /\ pendingCalls' = Remove(pendingCalls, i)
  /\ lastEvent' = [name |-> "solveRejected", output |-> output]
  /\ UNCHANGED <<step, originalImage, processedImage, ocrResult, editableExpression,
                 imageDimensions, corners, draggingCorner, pendingLoads, movesLeft, evalVars, flowVars, cropVars>>

\* page.tsx:111-115. The corner circles are rendered in the crop stage once
\* there is an image.
HandlePointerDown(index) ==
  /\ step = "crop"
  /\ originalImage # Null
  /\ draggingCorner' = index
  /\ lastEvent' = Event("handlePointerDown")
  /\ UNCHANGED <<step, originalImage, processedImage, isLoading, ocrResult,
                 editableExpression, imageDimensions, corners, pendingLoads, pendingCalls,
                 movesLeft, evalVars, flowVars, cropVars>>

\* page.tsx:125-126 without Math.max and Math.min.
Clamp_None(v) == v

\* Math.max(0, Math.min(1, v)), in tenths.
Clamp(v) == IF v < 0 THEN 0 ELSE IF v > 10 THEN 10 ELSE v

\* page.tsx:117-133. The listener is registered while a corner is dragged
\* (page.tsx:140-149); cropperRef.current is set in the crop stage only.
HandlePointerMove(position) ==
  /\ draggingCorner # NoCorner
  /\ movesLeft > 0
  /\ movesLeft' = movesLeft - 1
  /\ IF step # "crop"
     THEN UNCHANGED corners
     ELSE corners' = [corners EXCEPT ![draggingCorner + 1] =
                        [x |-> Clamp(position.x), y |-> Clamp(position.y)]]
  /\ lastEvent' = Event("handlePointerMove")
  /\ UNCHANGED <<step, originalImage, processedImage, isLoading, ocrResult,
                 editableExpression, imageDimensions, draggingCorner, pendingLoads,
                 pendingCalls, evalVars, flowVars, cropVars>>

\* page.tsx:135-138.
HandlePointerUp ==
  /\ draggingCorner # NoCorner
  /\ draggingCorner' = NoCorner
  /\ lastEvent' = Event("handlePointerUp")
  /\ UNCHANGED <<step, originalImage, processedImage, isLoading, ocrResult,
                 editableExpression, imageDimensions, corners, pendingLoads, pendingCalls,
                 movesLeft, evalVars, flowVars, cropVars>>

\* page.tsx:300: the equation box, rendered in the result stage with a result.
HandleExpressionChange(value) ==
  /\ step = "result"
  /\ ocrResult # Null
  /\ editableExpression' = value
  /\ lastEvent' = Event("onChange")
  /\ UNCHANGED <<step, originalImage, processedImage, isLoading, ocrResult,
                 imageDimensions, corners, draggingCorner, pendingLoads, pendingCalls,
                 movesLeft, evalVars, flowVars, cropVars>>

\* page.tsx:152-162 made to send the edited expression for another solve.
HandleRecalculate_Resubmits ==
  /\ step = "result"
  /\ ocrResult # Null
  /\ Len(pendingCalls) < MaxCalls
  /\ isLoading' = TRUE
  /\ pendingCalls' = Append(pendingCalls, [photoDataUri |-> originalImage])
  /\ ocrResult' = [ocrResult EXCEPT !.expression = editableExpression]
  /\ lastEvent' = Event("handleRecalculate")
  /\ UNCHANGED <<step, originalImage, processedImage, editableExpression, imageDimensions,
                 corners, draggingCorner, pendingLoads, movesLeft, evalVars, flowVars, cropVars>>

\* page.tsx:152-162. The button is rendered in the result stage.
HandleRecalculate ==
  /\ step = "result"
  /\ IF ocrResult = Null
     THEN UNCHANGED ocrResult
     ELSE LET newResult == simpleEvaluate(editableExpression).result IN
          ocrResult' = [ocrResult EXCEPT !.expression = editableExpression,
                                         !.result = NewResultDisplay(newResult)]
  /\ lastEvent' = Event("handleRecalculate")
  /\ UNCHANGED <<step, originalImage, processedImage, isLoading, editableExpression,
                 imageDimensions, corners, draggingCorner, pendingLoads, pendingCalls,
                 movesLeft, evalVars, flowVars, cropVars>>

\* page.tsx:46-61 without lines 54-57.
HandleReset_KeepsCorners ==
  /\ step \in {"crop", "result"}
  /\ step' = "upload"
  /\ originalImage' = Null
  /\ processedImage' = Null
  /\ isLoading' = FALSE
  /\ ocrResult' = Null
  /\ editableExpression' = <<>>
  /\ imageDimensions' = Null
  /\ lastEvent' = Event("handleReset")
  /\ UNCHANGED <<corners, draggingCorner, pendingLoads, pendingCalls, movesLeft,
                 evalVars, flowVars, cropVars>>

\* page.tsx:46-61 with a cancellation of the calls in flight added.
HandleReset_CancelsCalls ==
  /\ step \in {"crop", "result"}
  /\ step' = "upload"
  /\ originalImage' = Null
  /\ processedImage' = Null
  /\ isLoading' = FALSE
  /\ ocrResult' = Null
  /\ editableExpression' = <<>>
  /\ imageDimensions' = Null
  /\ corners' = DefaultCorners
  /\ pendingCalls' = <<>>
  /\ lastEvent' = Event("handleReset")
  /\ UNCHANGED <<draggingCorner, pendingLoads, movesLeft, evalVars, flowVars, cropVars>>

\* page.tsx:46-61 without line 47: the stage is left as it is.
HandleReset_KeepsStep ==
  /\ step \in {"crop", "result"}
  /\ originalImage' = Null
  /\ processedImage' = Null
  /\ isLoading' = FALSE
  /\ ocrResult' = Null
  /\ editableExpression' = <<>>
  /\ imageDimensions' = Null
  /\ corners' = DefaultCorners
  /\ lastEvent' = Event("handleReset")
  /\ UNCHANGED <<step, draggingCorner, pendingLoads, pendingCalls, movesLeft,
                 evalVars, flowVars, cropVars>>

\* page.tsx:46-61. The Start Over button is rendered in the crop and result
\* stages; the calls in flight are left alone.
HandleReset ==
  /\ step \in {"crop", "result"}
  /\ step' = "upload"
  /\ originalImage' = Null
  /\ processedImage' = Null
  /\ isLoading' = FALSE
  /\ ocrResult' = Null
  /\ editableExpression' = <<>>
  /\ imageDimensions' = Null
  /\ corners' = DefaultCorners
  /\ lastEvent' = Event("handleReset")
  /\ UNCHANGED <<draggingCorner, pendingLoads, pendingCalls, movesLeft, evalVars, flowVars, cropVars>>

Init == SessionInit /\ EvalIdle /\ FlowIdle /\ CropIdle

Next ==
  \/ \E file \in Files : HandleFileChange(file)
  \/ \E file \in Files : ImageOnload(file)
  \/ \E file \in Files : ImageOnerror(file)
  \/ HandleSolve
  \/ \E i \in 1..MaxCalls, output \in SessionOcrOutputs : SolveResolves(i, output)
  \/ \E i \in 1..MaxCalls, output \in SessionOcrOutputs \cup {TransportFailure} :
       SolveRejects(i, output)
  \/ \E index \in CornerIndices : HandlePointerDown(index)
  \/ \E position \in PointerPositions : HandlePointerMove(position)
  \/ HandlePointerUp
  \/ \E value \in TypedExpressions : HandleExpressionChange(value)
  \/ HandleRecalculate
  \/ HandleReset

Spec == Init /\ [][Next]_vars

\* ------------------------------------------------------------- the claims

AllowedOnly(s) == \A i \in 1..Len(s) : IsAllowed(s[i])

\* C1: on an input of allowed characters only, evaluateExpression does not
\* reject and its result is a finite number or NaN, never an infinity and
\* never a value that is no number, whatever the Function call produced.
C1_EvaluateExpressionFiniteOrNaN ==
  (evalWho = "evaluateExpression" /\ AllowedOnly(evalInput)) =>
    /\ ~evalOut.rejected
    /\ evalOut.result.k \in {"num", "fin", "nan"}

\* An allowed-only input whose Function call produced an infinity.
C1_Witness ==
  /\ evalWho = "evaluateExpression"
  /\ AllowedOnly(evalInput)
  /\ evalOut.arg # NoCall
  /\ evalOut.raw.k = "inf"
  /\ evalOut.result = NaN

\* e with each "*" written as U+00D7 and each "/" as U+00F7.
WithGlyphs(e) == ReplaceChar(ReplaceChar(e, "*", Times), "/", Divide)

\* C2: writing the "*" and "/" of an expression as the glyphs U+00D7 and
\* U+00F7 does not change the result of evaluateExpression.
C2_GlyphsEquivalent ==
  evalWho = "evaluateExpression" =>
    evaluateExpression(WithGlyphs(evalInput)).result = evalOut.result

\* C3: a recalculation of an expression whose arithmetic value is an
\* infinity shows the marker "Invalid Expression".
C3_RecalculateNonFiniteIsInvalid ==
  (lastEvent.name = "handleRecalculate" /\ ocrResult # Null
     /\ simpleEvaluate(ocrResult.expression).raw.k = "inf")
    => ocrResult.result = InvalidExpression

\* C4: the string an evaluator hands to the Function constructor holds
\* allowed characters only, and simpleEvaluate makes no call on an input
\* that holds another character after its glyph replacement.
C4_OnlyAllowedReachFunction ==
  evalWho # "idle" =>
    /\ evalOut.arg # NoCall => AllowedOnly(evalOut.arg)
    /\ (evalWho = "simpleEvaluate" /\ ~AllowedOnly(ReplaceGlyphs(evalInput)))
         => evalOut.arg = NoCall

\* evaluateExpression made its call on an input that held other characters.
C4_Witness ==
  /\ evalWho = "evaluateExpression"
  /\ ~AllowedOnly(evalInput)
  /\ evalOut.arg # NoCall

\* C5: with a non-null extraction result, the flow uses the extracted
\* expression as it is when operators is non-empty and the expression is
\* non-empty, and otherwise the numbers joined with " + ".
C5_AssemblyChoice ==
  (flowResult # Null /\ ocrOutput # Null) =>
    LET extractionResult == extractNumbersAndOperators(ocrOutput)
        expected == IF extractionResult.operators # <<>> /\ extractionResult.expression # <<>>
                    THEN extractionResult.expression
                    ELSE Join(extractionResult.numbers, <<" ", "+", " ">>)
    IN /\ flowResult.kind = "resolved"
       /\ IF flowResult.evaluated
          THEN flowResult.expression = expected
          ELSE Trim(expected) = <<>>

\* The numbers 2, 3, 5 with no operator were joined to "2 + 3 + 5".
C5_Witness ==
  /\ flowResult # Null
  /\ ocrOutput # Null
  /\ ocrOutput.operators = <<>>
  /\ ocrOutput.numbers = <<<<"2">>, <<"3">>, <<"5">>>>
  /\ flowResult.expression = <<"2", " ", "+", " ", "3", " ", "+", " ", "5">>

\* C6: when the assembled expression is empty or white space only, the flow
\* does not call evaluateExpression and does not throw: it resolves with
\* "No equation found" and 0.
C6_EmptyExpressionIsNoEquation ==
  (flowResult # Null /\ ocrOutput # Null
     /\ Trim(AssembleExpression(extractNumbersAndOperators(ocrOutput))) = <<>>)
    => /\ flowResult.kind = "resolved"
       /\ ~flowResult.evaluated
       /\ flowResult.expression = NoEquationFound
       /\ flowResult.result = Zero

\* No number and no operator were extracted.
C6_Witness ==
  /\ flowResult # Null
  /\ ocrOutput # Null
  /\ ocrOutput.numbers = <<>>
  /\ ocrOutput.operators = <<>>
  /\ flowResult.kind = "resolved"
  /\ flowResult.expression = NoEquationFound

\* C7: when evaluateExpression gives NaN for a non-empty assembled
\* expression, the call resolves with that expression unchanged and the
\* page reaches the result stage with it in the equation box.
C7_InvalidExpressionResolves ==
  (lastEvent.name \in {"solveResolved", "solveRejected"}
     /\ lastEvent.output \notin {Null, TransportFailure})
    => LET expression == AssembleExpression(extractNumbersAndOperators(lastEvent.output)) IN
       (Trim(expression) # <<>> /\ JsIsNaN(evaluateExpression(expression).result))
         => /\ lastEvent.name = "solveResolved"
            /\ step = "result"
            /\ ocrResult # Null
            /\ ocrResult.expression = expression
            /\ editableExpression = expression

\* The call resolved on the extracted expression "3/0", which does not
\* evaluate.
C7_Witness ==
  /\ lastEvent.name = "solveResolved"
  /\ lastEvent.output # Null
  /\ lastEvent.output.expression = <<"3", "/", "0">>
  /\ step = "result"
  /\ ocrResult.expression = <<"3", "/", "0">>

\* C8: in the result stage, when the evaluator's outcome for the shown
\* expression is invalid, whether evaluateExpression gave it in the remote
\* solve or simpleEvaluate in a recalculation, the displayed result is the
\* marker "Invalid Expression".
C8_InvalidOutcomeShowsMarker ==
  (step = "result" /\ ocrResult # Null) =>
    /\ (lastEvent.name = "solveResolved"
          /\ Trim(AssembleExpression(extractNumbersAndOperators(lastEvent.output))) # <<>>
          /\ JsIsNaN(evaluateExpression(ocrResult.expression).result))
         => ocrResult.result = InvalidExpression
    /\ (lastEvent.name = "handleRecalculate"
          /\ ~IsFiniteNumber(simpleEvaluate(ocrResult.expression).result))
         => ocrResult.result = InvalidExpression

\* C9: a rejected call changes nothing but isLoading, which it sets to
\* false: the stage, the image, its dimensions, the corners, the processed
\* image, the result and the equation box are as they were.
C9_RejectionIsCaught ==
  [][lastEvent'.name = "solveRejected" =>
       /\ isLoading' = FALSE
       /\ UNCHANGED <<step, originalImage, imageDimensions, corners, processedImage,
                      ocrResult, editableExpression>>]_vars

\* The extraction returned no output, and the page is in the crop stage with
\* its image, ready for another try.
C9_Witness ==
  /\ lastEvent.name = "solveRejected"
  /\ lastEvent.output = Null
  /\ step = "crop"
  /\ originalImage # Null
  /\ imageDimensions # Null
  /\ ~isLoading

\* C10: after handleReset the page is in its initial state.
C10_ResetRestoresInitial ==
  lastEvent.name = "handleReset" =>
    /\ step = "upload"
    /\ originalImage = Null
    /\ processedImage = Null
    /\ ocrResult = Null
    /\ editableExpression = <<>>
    /\ imageDimensions = Null
    /\ isLoading = FALSE
    /\ corners = <<[x |-> 1, y |-> 1], [x |-> 9, y |-> 1], [x |-> 9, y |-> 9], [x |-> 1, y |-> 9]>>

\* handleReset ran while a call was in flight.
C10_Witness ==
  /\ lastEvent.name = "handleReset"
  /\ pendingCalls # <<>>
  /\ step = "upload"

\* C11: handleReset leaves the calls in flight alone, and a call that
\* resolves after it, in the upload stage, sets processedImage, ocrResult and
\* editableExpression and moves the stage to result, with no image.
C11_LateResponseOverwritesReset ==
  [][/\ lastEvent'.name = "handleReset" => pendingCalls' = pendingCalls
     /\ (lastEvent'.name = "solveResolved" /\ step = "upload") =>
          /\ step' = "result"
          /\ processedImage' # Null
          /\ ocrResult' # Null
          /\ editableExpression' = ocrResult'.expression
          /\ originalImage' = originalImage]_vars

\* The call resolved after handleReset: the result stage without an image.
C11_Witness ==
  /\ lastEvent.name = "solveResolved"
  /\ step = "result"
  /\ originalImage = Null
  /\ imageDimensions = Null
  /\ ocrResult # Null
  /\ editableExpression = ocrResult.expression

\* C12: handleRecalculate starts no call and changes nothing but ocrResult,
\* whose expression becomes the text of the equation box; with no ocrResult
\* it changes nothing.
C12_RecalculateIsLocal ==
  [][lastEvent'.name = "handleRecalculate" =>
       /\ UNCHANGED <<step, originalImage, processedImage, imageDimensions, corners,
                      editableExpression, isLoading, pendingCalls>>
       /\ IF ocrResult = Null
          THEN ocrResult' = Null
          ELSE ocrResult'.expression = editableExpression]_vars

\* A recalculation of an expression that does not evaluate, while nothing
\* is in flight.
C12_Witness ==
  /\ lastEvent.name = "handleRecalculate"
  /\ step = "result"
  /\ ocrResult # Null
  /\ ocrResult.expression = editableExpression
  /\ ocrResult.result = InvalidExpression
  /\ pendingCalls = <<>>
  /\ ~isLoading

\* The part of image inside the quadrilateral cs: what a crop transform
\* gives for the chosen corners, another payload for other corners.
SelectedRegion(image, cs) == [k |-> "dataUri", file |-> image.file, region |-> cs]

\* C13: the image a call carries to the flow is the region of the original
\* image that the corners select, not the original image as a whole.
C13_PayloadIsSelectedRegion ==
  (lastEvent.name = "handleSolve" /\ pendingCalls # <<>>) =>
    pendingCalls[Len(pendingCalls)].photoDataUri =
      SelectedRegion(originalImage, SolveArgument(originalImage, imageDimensions, corners).corners)

\* C14: there are always four corners, and every coordinate of a corner is
\* in [0, 1] (0..10 in tenths), wherever the pointer went.
C14_CornersInUnitSquare ==
  /\ Len(corners) = 4
  /\ \A i \in 1..Len(corners) :
       /\ corners[i].x >= 0 /\ corners[i].x <= 10
       /\ corners[i].y >= 0 /\ corners[i].y <= 10

\* The pointer left the cropper to the left and below while a corner was
\* dragged: the corner is on the edge.
C14_Witness ==
  /\ lastEvent.name = "handlePointerMove"
  /\ draggingCorner # NoCorner
  /\ corners[draggingCorner + 1] = [x |-> 0, y |-> 10]

\* crop lies within image and has pixels.
WithinImage(crop, image) ==
  /\ crop.width > 0 /\ crop.height > 0
  /\ crop.x + crop.width <= image.width
  /\ crop.y + crop.height <= image.height

\* The image decodes and the browser grants what the function that ran asks
\* for.
CropGranted ==
  /\ imageSrc.decodes
  /\ canvasEnv.context
  /\ cropWho = "cropImage" => canvasEnv.secondContext
  /\ canvasEnv.encodes

\* C15 as stated: for a rectangle within the source image, getCroppedImg
\* gives a raster of rect.width by rect.height pixels whose pixel (i, j) is
\* the pixel (rect.x + i, rect.y + j) of the source.
C15_CropIsExactRegion ==
  (cropWho # "idle" /\ CropGranted /\ WithinImage(pixelCrop, imageSrc.image))
    => /\ cropOut.kind = "resolved"
       /\ cropOut.value.mime = "image/jpeg"
       /\ cropOut.value.bitmap.width = pixelCrop.width
       /\ cropOut.value.bitmap.height = pixelCrop.height
       /\ \A p \in Coordinates(pixelCrop.width, pixelCrop.height) :
            cropOut.value.bitmap.px[p] =
              imageSrc.image.px[<<pixelCrop.x + p[1], pixelCrop.y + p[2]>>]

\* C15, amended: for a rectangle within the source image, getCroppedImg
\* gives a JPEG of rect.width by rect.height pixels whose pixel (i, j) is the
\* pixel (rect.x + i, rect.y + j) of the source laid over opaque black: an
\* opaque pixel as it is, a transparent one black.
C15_CropIsRegionOnBlack ==
  (cropWho # "idle" /\ CropGranted /\ WithinImage(pixelCrop, imageSrc.image))
    => /\ cropOut.kind = "resolved"
       /\ cropOut.value.mime = "image/jpeg"
       /\ cropOut.value.bitmap.width = pixelCrop.width
       /\ cropOut.value.bitmap.height = pixelCrop.height
       /\ \A p \in Coordinates(pixelCrop.width, pixelCrop.height) :
            cropOut.value.bitmap.px[p] =
              Over(imageSrc.image.px[<<pixelCrop.x + p[1], pixelCrop.y + p[2]>>], Black)

\* cropImage.ts cropped the whole PNG: its transparent pixel came out black,
\* an opaque one as it was.
C15_Witness ==
  /\ cropWho = "cropImage"
  /\ CropGranted
  /\ imageSrc.image = Sticker
  /\ pixelCrop = [x |-> 0, y |-> 0, width |-> 2, height |-> 2]
  /\ cropOut.kind = "resolved"
  /\ cropOut.value.bitmap.px[<<0, 0>>] = Black
  /\ cropOut.value.bitmap.px[<<1, 1>>] = Sticker.px[<<1, 1>>]

\* C16: getCroppedImg does not reject: when the image does not decode, when
\* no 2D context is granted or when the encoding gives no data, it resolves
\* to null.
C16_CropNeverRejects ==
  cropWho # "idle" =>
    /\ cropOut.kind = "resolved"
    /\ (~imageSrc.decodes \/ ~canvasEnv.context \/ ~canvasEnv.encodes)
         => cropOut.value = Null

\* C17: the string evaluateExpression hands to the evaluation never ends
\* with one of + - * / and the decimal point.
C17_NoTrailingOperator ==
  (evalWho = "evaluateExpression" /\ evalOut.arg # NoCall) =>
    ~IsTrailingOp(evalOut.arg[Len(evalOut.arg)])

\* How the page would show an evaluator's result: the marker for what
\* isNaN rejects, the value otherwise.
Classified(result) == IF JsIsNaN(result) THEN InvalidExpression ELSE result

\* C18: evaluateExpression and simpleEvaluate classify every expression the
\* same way: both invalid, or both valid with the same value.
C18_EvaluatorsAgree ==
  evalWho = "evaluateExpression" =>
    Classified(evalOut.result) = Classified(simpleEvaluate(evalInput).result)

\* C19: when the OCR prompt's output has no operators, the expression the
\* solve returns is the numbers joined with " + ", whatever expression the
\* prompt gave, when there is a number to join.
C19_NoOperatorsMeansAddition ==
  (/\ flowResult # Null /\ ocrOutput # Null
   /\ ocrOutput.operators = <<>>
   /\ Trim(Join(ocrOutput.numbers, <<" ", "+", " ">>)) # <<>>)
    => /\ flowResult.kind = "resolved"
       /\ flowResult.expression = Join(ocrOutput.numbers, <<" ", "+", " ">>)

\* C20: isLoading is true whenever a solveScannedEquations call is
\* outstanding, and at most one call is outstanding.
C20_LoadingWhileOutstanding ==
  /\ pendingCalls # <<>> => isLoading
  /\ Len(pendingCalls) <= 1

\* C21: the crop stage has an image and its dimensions, so that handleSolve
\* always starts its call, and the result stage has an ocrResult.
C21_StagePayloadPresent ==
  /\ step = "crop" => (originalImage # Null /\ imageDimensions # Null)
  /\ lastEvent.name = "handleSolve" => (isLoading /\ pendingCalls # <<>>)
  /\ step = "result" => ocrResult # Null

\* The crop stage entered again, after a reset that left a call in flight.
C21_Witness ==
  /\ step = "crop"
  /\ lastEvent.name = "img.onload"
  /\ pendingCalls # <<>>
  /\ originalImage # Null
  /\ imageDimensions # Null
  /\ ocrResult = Null

=============================================================================
